---- MODULE Spec2Model ----
(***************************************************************************)
(* Multi-object tracking core of Assembly-Time-Tracking-Workflow:          *)
(*   tracking/kalman_filter.py   KalmanFilter                              *)
(*   tracking/bytetrack.py       Track, ByteTracker                        *)
(*   tracking/tracking_manager.py TrackingManager                          *)
(*   core/zones/zone_manager.py, zone_detector.py (zone collaborator)      *)
(*                                                                         *)
(* Numbers.  Python floats are modelled in fixed point:                    *)
(*   positions and sizes  in 1/10 pixel, scores in 1/100,                  *)
(*   aspect ratio         in 1/AScale, IoU in 1/IoUScale,                  *)
(* every division rounding to the nearest unit (RDiv).                     *)
(* The 8x8 Kalman system is block diagonal: F couples coordinate i only    *)
(* with its velocity i+4, H observes coordinates 0..3, and every noise     *)
(* matrix and the initial covariance are diagonal.  The covariance is      *)
(* therefore kept as four 2x2 symmetric blocks <<p, c, q>>                 *)
(* (p = var(pos), c = cov(pos, vel), q = var(vel)), one per coordinate.    *)
(***************************************************************************)
EXTENDS Integers, Sequences, FiniteSets, TLC

(***************************************************************************)
(* Bounds of the model                                                     *)
(***************************************************************************)
MaxFrames == 5
MaxBusy == 3
MaxAdmin == 4
MaxWide == 2
MaxDets == 2
MaxCallbacks == 2

(***************************************************************************)
(* Fixed-point scales                                                      *)
(***************************************************************************)
AScale == 10000
IoUScale == 1000

(***************************************************************************)
(* Program constants                                                       *)
(***************************************************************************)
New == 0
Tracked == 1
Lost == 2
Removed == 3

LowScoreFloor == 10
SecondMatchThresh == 500
UnconfirmedMatchThresh == 700
DefaultTrackThresh == 50
DefaultMatchThresh == 800
FrameRate == 30

None == -1

(***************************************************************************)
(* Generic helpers                                                         *)
(***************************************************************************)
RDiv(a, b) == (2 * a + b) \div (2 * b)

Max2(a, b) == IF a >= b THEN a ELSE b

Min2(a, b) == IF a <= b THEN a ELSE b

Range(s) == {s[i] : i \in 1..Len(s)}

RECURSIVE SeqOfSet(_)
SeqOfSet(S) ==
    IF S = {} THEN <<>>
    ELSE LET m == CHOOSE x \in S : \A y \in S : x <= y
         IN <<m>> \o SeqOfSet(S \ {m})

(***************************************************************************)
(* KalmanFilter                                                            *)
(***************************************************************************)
\* variance (std_weight * h * k)^2 with std_weight = 1/den, k = num
HVar(h, num, den) == RDiv(num * num * h * h, den * den)

\* aspect-ratio variances in units of 1e-6: (1e-2)^2, (1e-1)^2, (1e-5)^2
AVarInit == 100
AVarMeas == 10000
AVelVar == 0

KalmanInitiate(m) ==
    [mean |-> <<m[1], m[2], m[3], m[4], 0, 0, 0, 0>>,
     cov  |-> << <<HVar(m[4], 2, 20), 0, HVar(m[4], 10, 160)>>,
                 <<HVar(m[4], 2, 20), 0, HVar(m[4], 10, 160)>>,
                 <<AVarInit, 0, AVelVar>>,
                 <<HVar(m[4], 2, 20), 0, HVar(m[4], 10, 160)>> >>]

\* F P F^T + Q on one 2x2 block
PredictBlock(b, qp, qv) == <<b[1] + 2 * b[2] + b[3] + qp, b[2] + b[3], b[3] + qv>>

KalmanPredict(mean, cov) ==
    LET h  == mean[4]
        qp == HVar(h, 1, 20)
        qv == HVar(h, 1, 160)
    IN [mean |-> <<mean[1] + mean[5], mean[2] + mean[6],
                   mean[3] + mean[7], mean[4] + mean[8],
                   mean[5], mean[6], mean[7], mean[8]>>,
        cov  |-> <<PredictBlock(cov[1], qp, qv),
                   PredictBlock(cov[2], qp, qv),
                   PredictBlock(cov[3], AVarInit, AVelVar),
                   PredictBlock(cov[4], qp, qv)>>]

\* P - K H P on one 2x2 block, K = P H^T / (p + r)
UpdateBlock(b, r) ==
    LET s == b[1] + r
    IN <<RDiv(b[1] * r, s), RDiv(b[2] * r, s), b[3] - RDiv(b[2] * b[2], s)>>

GainPos(b, r, innov) == RDiv(b[1] * innov, b[1] + r)

GainVel(b, r, innov) == RDiv(b[2] * innov, b[1] + r)

KalmanUpdate(mean, cov, z) ==
    LET h  == mean[4]
        r  == HVar(h, 1, 20)
        ra == AVarMeas
        rr == <<r, r, ra, r>>
    IN [mean |-> [i \in 1..8 |->
                    IF i <= 4
                    THEN mean[i] + GainPos(cov[i], rr[i], z[i] - mean[i])
                    ELSE mean[i] + GainVel(cov[i - 4], rr[i - 4], z[i - 4] - mean[i - 4])],
        cov  |-> [i \in 1..4 |-> UpdateBlock(cov[i], rr[i])]]

(***************************************************************************)
(* Track                                                                   *)
(***************************************************************************)
xyxy_to_xyah(bbox) ==
    LET w == bbox[3] - bbox[1]
        h == bbox[4] - bbox[2]
    IN <<bbox[1] + RDiv(w, 2), bbox[2] + RDiv(h, 2),
         IF h > 0 THEN RDiv(w * AScale, h) ELSE AScale, h>>

\* A detection wrapped as a Track object (bytetrack.py 256-282): the
\* dataclass defaults give it state Tracked, is_activated False, no mean.
DetTrack(d, fid) ==
    [track_id |-> 0, bbox |-> d.bbox, score |-> d.score, state |-> Tracked,
     is_activated |-> FALSE, frame_id |-> fid, tracklet_len |-> 0,
     start_frame |-> 0, hasMean |-> FALSE,
     mean |-> <<0, 0, 0, 0, 0, 0, 0, 0>>,
     cov |-> << <<0, 0, 0>>, <<0, 0, 0>>, <<0, 0, 0>>, <<0, 0, 0>> >>]

activate(t, fid, id) ==
    LET k == KalmanInitiate(xyxy_to_xyah(t.bbox))
    IN [t EXCEPT !.track_id = id, !.tracklet_len = 0, !.state = Tracked,
                 !.is_activated = TRUE, !.frame_id = fid, !.start_frame = fid,
                 !.hasMean = TRUE, !.mean = k.mean, !.cov = k.cov]

\* re_activate taking the identity of the detection's Track object
re_activate_det_id(t, det, fid) ==
    LET k == KalmanUpdate(t.mean, t.cov, xyxy_to_xyah(det.bbox))
    IN [t EXCEPT !.mean = k.mean, !.cov = k.cov, !.tracklet_len = 0,
                 !.state = Tracked, !.is_activated = TRUE, !.frame_id = fid,
                 !.track_id = 0, !.score = det.score]

re_activate(t, det, fid) ==
    LET k == KalmanUpdate(t.mean, t.cov, xyxy_to_xyah(det.bbox))
    IN [t EXCEPT !.mean = k.mean, !.cov = k.cov, !.tracklet_len = 0,
                 !.state = Tracked, !.is_activated = TRUE, !.frame_id = fid,
                 !.score = det.score]

\* update that leaves tracklet_len as it was
update_same_len(t, det, fid) ==
    LET k == KalmanUpdate(t.mean, t.cov, xyxy_to_xyah(det.bbox))
    IN [t EXCEPT !.frame_id = fid, !.mean = k.mean, !.cov = k.cov,
                 !.state = Tracked, !.is_activated = TRUE, !.score = det.score,
                 !.bbox = det.bbox]

update(t, det, fid) ==
    LET k == KalmanUpdate(t.mean, t.cov, xyxy_to_xyah(det.bbox))
    IN [t EXCEPT !.frame_id = fid, !.tracklet_len = t.tracklet_len + 1,
                 !.mean = k.mean, !.cov = k.cov, !.state = Tracked,
                 !.is_activated = TRUE, !.score = det.score, !.bbox = det.bbox]

\* predict that keeps the velocity of a track that is not Tracked
predict_keep_velocity(t) ==
    LET k == KalmanPredict(t.mean, t.cov)
    IN [t EXCEPT !.mean = k.mean, !.cov = k.cov]

predict(t) ==
    LET m0 == IF t.state # Tracked THEN [t.mean EXCEPT ![8] = 0] ELSE t.mean
        k  == KalmanPredict(m0, t.cov)
    IN [t EXCEPT !.mean = k.mean, !.cov = k.cov]

\* mark_lost without effect
mark_lost_noop(t) == t

\* predict() called n times on one Track object
RECURSIVE predict_times(_, _)
predict_times(t, n) == IF n = 0 THEN t ELSE predict_times(predict(t), n - 1)

mark_lost(t) == [t EXCEPT !.state = Lost]

mark_removed(t) == [t EXCEPT !.state = Removed]

tlwh(t) ==
    IF ~t.hasMean
    THEN <<t.bbox[1], t.bbox[2], t.bbox[3] - t.bbox[1], t.bbox[4] - t.bbox[2]>>
    ELSE LET w == RDiv(t.mean[3] * t.mean[4], AScale)
             h == t.mean[4]
         IN <<t.mean[1] - RDiv(w, 2), t.mean[2] - RDiv(h, 2), w, h>>

tlbr(t) ==
    LET r == tlwh(t)
    IN <<r[1], r[2], r[1] + r[3], r[2] + r[4]>>

(***************************************************************************)
(* ByteTracker helpers                                                     *)
(***************************************************************************)
Area(b) == (b[3] - b[1]) * (b[4] - b[2])

\* IoU in 1/IoUScale
bbox_iou(b1, b2) ==
    LET x1 == Max2(b1[1], b2[1])
        y1 == Max2(b1[2], b2[2])
        x2 == Min2(b1[3], b2[3])
        y2 == Min2(b1[4], b2[4])
        inter == Max2(0, x2 - x1) * Max2(0, y2 - y1)
        union == Area(b1) + Area(b2) - inter
    IN IF union = 0 THEN 0 ELSE (inter * IoUScale) \div union

RECURSIVE joint_rec(_, _, _, _)
joint_rec(heap, res, ids, rest) ==
    IF rest = <<>> THEN res
    ELSE LET u == Head(rest)
             tid == heap[u].track_id
         IN IF tid \in ids
            THEN joint_rec(heap, res, ids, Tail(rest))
            ELSE joint_rec(heap, Append(res, u), ids \cup {tid}, Tail(rest))

\* joining without the track_id test
joint_tracks_concat(heap, tlista, tlistb) == tlista \o tlistb

joint_tracks(heap, tlista, tlistb) ==
    joint_rec(heap, tlista, {heap[u].track_id : u \in Range(tlista)}, tlistb)

sub_tracks(heap, tlista, tlistb) ==
    LET idsb == {heap[u].track_id : u \in Range(tlistb)}
    IN SelectSeq(tlista, LAMBDA u : heap[u].track_id \notin idsb)

(***************************************************************************)
(* ByteTracker._matching                                                   *)
(* A matching is a set of <<track index, detection index>> pairs.          *)
(***************************************************************************)
Solvers == {"lap", "scipy", "greedy"}

IsMatching(M) ==
    \A p \in M : \A q \in M : (p # q) => (p[1] # q[1] /\ p[2] # q[2])

RECURSIVE SumOver(_, _, _)
SumOver(M, iou, off) ==
    IF M = {} THEN 0
    ELSE LET p == CHOOSE x \in M : TRUE
         IN (iou[p[1]][p[2]] - off) + SumOver(M \ {p}, iou, off)

\* lap.lapjv(extend_cost, cost_limit = 1 - thresh): minimum of the matched
\* costs plus cost_limit / 2 per unmatched row and column, i.e. maximum of
\* the sum of (IoU - thresh) over the matched pairs.
\* scipy linear_sum_assignment on the thresholded costs, then filtered:
\* maximum of the sum of IoU over the pairs with IoU >= thresh.
OptimalMatchings(V, iou, off) ==
    LET Ms == {M \in SUBSET V : IsMatching(M)}
    IN {M \in Ms : \A M2 \in Ms :
            /\ SumOver(M2, iou, off) <= SumOver(M, iou, off)
            /\ (SumOver(M2, iou, off) = SumOver(M, iou, off)
                    => Cardinality(M2) <= Cardinality(M))}

\* greedy fallback: candidates sorted by (iou, i, j) descending
RECURSIVE GreedyMatching(_, _, _)
GreedyMatching(cands, iou, M) ==
    IF cands = {} THEN M
    ELSE LET best == CHOOSE p \in cands : \A q \in cands :
                        \/ iou[p[1]][p[2]] > iou[q[1]][q[2]]
                        \/ /\ iou[p[1]][p[2]] = iou[q[1]][q[2]]
                           /\ \/ p[1] > q[1]
                              \/ (p[1] = q[1] /\ p[2] >= q[2])
         IN IF (\E q \in M : q[1] = best[1] \/ q[2] = best[2])
            THEN GreedyMatching(cands \ {best}, iou, M)
            ELSE GreedyMatching(cands \ {best}, iou, M \cup {best})

\* every pair a candidate, whatever its IoU
AboveThresh_any(iou, n, m, thresh) == (1..n) \X (1..m)

\* the pairs a solver may return: cost_limit = 1 - thresh (401), the filter
\* iou_matrix[i, j] >= thresh (413, 424)
AboveThresh(iou, n, m, thresh) ==
    {p \in (1..n) \X (1..m) : iou[p[1]][p[2]] >= thresh}

NoMatch(n, m) ==
    [raised |-> FALSE, matches |-> {},
     u_track |-> SeqOfSet(1..n), u_det |-> SeqOfSet(1..m)]

matching(tboxes, dboxes, thresh, solver) ==
    LET n == Len(tboxes)
        m == Len(dboxes)
    IN IF n = 0 \/ m = 0 THEN NoMatch(n, m)
       ELSE
         LET iou == [i \in 1..n |-> [j \in 1..m |-> bbox_iou(tboxes[i], dboxes[j])]]
             V == AboveThresh(iou, n, m, thresh)
             M == IF solver = "lap"
                    THEN CHOOSE X \in OptimalMatchings(V, iou, thresh) : TRUE
                  ELSE IF solver = "scipy"
                    THEN CHOOSE X \in OptimalMatchings(V, iou, 0) : TRUE
                  ELSE GreedyMatching(V, iou, {})
         IN \* np.array([]) is one-dimensional: matches[:, 0] raises IndexError
            IF M = {} THEN [NoMatch(n, m) EXCEPT !.raised = TRUE]
            ELSE [raised |-> FALSE, matches |-> M,
                  u_track |-> SeqOfSet({i \in 1..n : \A p \in M : p[1] # i}),
                  u_det |-> SeqOfSet({j \in 1..m : \A p \in M : p[2] # j})]

(***************************************************************************)
(* ByteTracker                                                             *)
(***************************************************************************)
max_time_lost(frame_rate, track_buffer) == (frame_rate * track_buffer) \div 30

NewTracker(track_thresh, track_buffer, match_thresh) ==
    [track_thresh |-> track_thresh, track_buffer |-> track_buffer,
     match_thresh |-> match_thresh,
     max_time_lost |-> max_time_lost(FrameRate, track_buffer),
     frame_id |-> 0, heap |-> <<>>,
     tracked_tracks |-> <<>>, lost_tracks |-> <<>>, removed_tracks |-> <<>>]

TrackerReset(trk) ==
    [trk EXCEPT !.frame_id = 0, !.heap = <<>>, !.tracked_tracks = <<>>,
                !.lost_tracks = <<>>, !.removed_tracks = <<>>]

\* remain_inds = det_scores > track_thresh
HighDets(dets, track_thresh) ==
    SelectSeq(dets, LAMBDA d : d.score > track_thresh)

\* inds_second = (det_scores > 0.1) & (det_scores < track_thresh)
SecondDets(dets, track_thresh) ==
    SelectSeq(dets, LAMBDA d : d.score > LowScoreFloor /\ d.score < track_thresh)

Boxes(heap, us) == [i \in 1..Len(us) |-> tlbr(heap[us[i]])]

DetBoxes(ds) == [i \in 1..Len(ds) |-> ds[i].bbox]

\* for itracked, idet in matches: update or re_activate (both stages)
ApplyMatches(heap, tl, dl, M, fid) ==
    [u \in DOMAIN heap |->
        IF \E p \in M : tl[p[1]] = u
        THEN LET p == CHOOSE q \in M : tl[q[1]] = u
             IN IF heap[u].state = Tracked
                THEN update(heap[u], dl[p[2]], fid)
                ELSE re_activate(heap[u], dl[p[2]], fid)
        ELSE heap[u]]

\* for itracked, idet in matches: unconfirmed[itracked].update(...)
ApplyUnconfirmed(heap, tl, dl, M, fid) ==
    [u \in DOMAIN heap |->
        IF \E p \in M : tl[p[1]] = u
        THEN LET p == CHOOSE q \in M : tl[q[1]] = u
             IN update(heap[u], dl[p[2]], fid)
        ELSE heap[u]]

MatchedPairs(tl, dl, M) == {<<tl[p[1]], dl[p[2]]>> : p \in M}

\* keeping every element, whatever the index list says
Pick_all(s, idx) == s

\* [s[i] for i in idx]
Pick(s, idx) == [i \in 1..Len(idx) |-> s[idx[i]]]

(***************************************************************************)
(* ByteTracker.update.  The result carries the new tracker, the new value  *)
(* of the class-level counter Track._count, whether the call raised, the   *)
(* returned tracks, and a trace of what the call did (trace fields are     *)
(* observations only, nothing reads them back).                            *)
(***************************************************************************)
EmptyTrace ==
    [high |-> <<>>, second |-> <<>>, pool |-> <<>>, predicted |-> <<>>,
     m1 |-> {}, m2 |-> {}, m3 |-> {}, spawned |-> {}, stage |-> 0]

UpdateResult(trk, count, raised, output, trace) ==
    [trk |-> trk, count |-> count, raised |-> raised, output |-> output,
     trace |-> trace]

\* lines 347-354: Init new tracks
SpawnDets(dl, u_det, track_thresh) ==
    SelectSeq(Pick(dl, u_det), LAMBDA d : ~(d.score < track_thresh))

\* lines 356-374: remove, rebuild the pools, collect the output
Finish(trk, heap5, fid, tracked_stracks0, unconfirmed, spawn, count, trace) ==
    LET n0 == Len(heap5)
        heap6 == heap5 \o [k \in 1..Len(spawn) |->
                              activate(DetTrack(spawn[k], fid), fid, count + k)]
        tracked_stracks == tracked_stracks0 \o [k \in 1..Len(spawn) |-> n0 + k]
        expired == SelectSeq(trk.lost_tracks,
                      LAMBDA u : fid - heap6[u].frame_id > trk.max_time_lost)
        heap7 == [u \in DOMAIN heap6 |->
                     IF u \in Range(expired) THEN mark_removed(heap6[u])
                     ELSE heap6[u]]
        removed == trk.removed_tracks \o expired
        tt1 == SelectSeq(trk.tracked_tracks, LAMBDA u : heap7[u].state = Tracked)
        tt2 == joint_tracks(heap7, tt1, tracked_stracks)
        tt3 == joint_tracks(heap7, tt2, unconfirmed)
        lt1 == SelectSeq(trk.lost_tracks, LAMBDA u : heap7[u].state = Lost)
        lt2 == sub_tracks(heap7, lt1, tt3)
        lt3 == lt2 \o SelectSeq(tracked_stracks, LAMBDA u : heap7[u].state = Lost)
        lt4 == sub_tracks(heap7, lt3, removed)
        output == SelectSeq(tt3, LAMBDA u : heap7[u].is_activated)
    IN UpdateResult(
         [trk EXCEPT !.frame_id = fid, !.heap = heap7, !.tracked_tracks = tt3,
                     !.lost_tracks = lt4, !.removed_tracks = removed],
         count + Len(spawn), FALSE, output,
         [trace EXCEPT !.stage = 4,
             !.spawned = {<<n0 + k, spawn[k]>> : k \in 1..Len(spawn)}])

Raise(trk, heap, fid, count, trace) ==
    UpdateResult([trk EXCEPT !.frame_id = fid, !.heap = heap], count, TRUE, <<>>, trace)

\* lines 337-345: unconfirmed tracks against the remaining high detections
StageUnconfirmed(trk, heap4, fid, tracked_stracks, unconfirmed, high_rem, count, solver, trace) ==
    LET mt == matching(Boxes(heap4, unconfirmed), DetBoxes(high_rem),
                       UnconfirmedMatchThresh, solver)
        tr == [trace EXCEPT !.stage = 3,
                            !.m3 = MatchedPairs(unconfirmed, high_rem, mt.matches)]
    IN IF mt.raised THEN Raise(trk, heap4, fid, count, tr)
       ELSE Finish(trk,
                   ApplyUnconfirmed(heap4, unconfirmed, high_rem, mt.matches, fid),
                   fid, tracked_stracks, unconfirmed,
                   SpawnDets(high_rem, mt.u_det, trk.track_thresh), count, tr)

\* every track stage 1 left unmatched, whatever its state
r_tracked_stracks_any(heap, pool, u_track) == Pick(pool, u_track)

\* line 316: [strack_pool[i] for i in u_track if state == Tracked]
r_tracked_stracks(heap, pool, u_track) ==
    SelectSeq(Pick(pool, u_track), LAMBDA u : heap[u].state = Tracked)

\* lines 315-335: second association and mark_lost
StageSecond(trk, heap2, fid, tracked_stracks, unconfirmed, pool, u_track, high_rem, second, count, solver, trace) ==
    LET r_tracked == r_tracked_stracks(heap2, pool, u_track)
        mt == matching(Boxes(heap2, r_tracked), DetBoxes(second),
                       SecondMatchThresh, solver)
        tr == [trace EXCEPT !.stage = 2,
                            !.m2 = MatchedPairs(r_tracked, second, mt.matches)]
        heap3 == ApplyMatches(heap2, r_tracked, second, mt.matches, fid)
        losers == Range(Pick(r_tracked, mt.u_track))
        heap4 == [u \in DOMAIN heap3 |->
                     IF u \in losers /\ heap3[u].state # Lost
                     THEN mark_lost(heap3[u]) ELSE heap3[u]]
    IN IF mt.raised THEN Raise(trk, heap2, fid, count, tr)
       ELSE StageUnconfirmed(trk, heap4, fid, tracked_stracks, unconfirmed,
                             high_rem, count, solver, tr)

ByteTrackerUpdate(trk, dets, count, solver) ==
    LET fid == trk.frame_id + 1
        high == HighDets(dets, trk.track_thresh)
        second == SecondDets(dets, trk.track_thresh)
        unconfirmed == SelectSeq(trk.tracked_tracks,
                                 LAMBDA u : ~trk.heap[u].is_activated)
        tracked_stracks == SelectSeq(trk.tracked_tracks,
                                     LAMBDA u : trk.heap[u].is_activated)
        pool == joint_tracks(trk.heap, tracked_stracks, trk.lost_tracks)
        \* for track in strack_pool: track.predict()
        heap1 == [u \in DOMAIN trk.heap |->
                     predict_times(trk.heap[u],
                                   Cardinality({i \in 1..Len(pool) : pool[i] = u}))]
        mt == matching(Boxes(heap1, pool), DetBoxes(high), trk.match_thresh, solver)
        tr == [EmptyTrace EXCEPT !.high = high, !.second = second, !.pool = pool,
                  !.predicted = [i \in 1..Len(pool) |-> heap1[pool[i]]],
                  !.stage = 1,
                  !.m1 = MatchedPairs(pool, high, mt.matches)]
    IN IF mt.raised THEN Raise(trk, heap1, fid, count, tr)
       ELSE StageSecond(trk, ApplyMatches(heap1, pool, high, mt.matches, fid),
                        fid, tracked_stracks, unconfirmed, pool, mt.u_track,
                        Pick(high, mt.u_det), second, count, solver, tr)

(***************************************************************************)
(* Zone collaborator (ZoneManager, ZoneDetector).  Zones are rectangles;   *)
(* cv2.pointPolygonTest(...) >= 0 holds inside and on the edge.            *)
(***************************************************************************)
Cameras == {1, 2}

Zones ==
    << [zone_id |-> 1, camera_id |-> 1, active |-> TRUE,
        x1 |-> 0, y1 |-> 0, x2 |-> 1270, y2 |-> 4000],
       [zone_id |-> 2, camera_id |-> 1, active |-> TRUE,
        x1 |-> 1270, y1 |-> 0, x2 |-> 1390, y2 |-> 4000],
       [zone_id |-> 3, camera_id |-> 1, active |-> FALSE,
        x1 |-> 3000, y1 |-> 0, x2 |-> 4000, y2 |-> 4000],
       [zone_id |-> 4, camera_id |-> 2, active |-> TRUE,
        x1 |-> 0, y1 |-> 0, x2 |-> 1270, y2 |-> 4000] >>

get_zones_by_camera(c) == SelectSeq(Zones, LAMBDA z : z.camera_id = c)

point_in_polygon_cv2(x, y, z) ==
    z.x1 <= x /\ x <= z.x2 /\ z.y1 <= y /\ y <= z.y2

\* lines 126-137: first zone of the camera that contains the centre of
\* track.bbox, None when there is none
RECURSIVE FirstZone(_, _, _)
FirstZone(zs, x, y) ==
    IF zs = <<>> THEN None
    ELSE IF point_in_polygon_cv2(x, y, Head(zs)) THEN Head(zs).zone_id
    ELSE FirstZone(Tail(zs), x, y)

CenterX(t) == RDiv(t.bbox[1] + t.bbox[3], 2)

CenterY(t) == RDiv(t.bbox[2] + t.bbox[4], 2)

ResolveZone(c, t) == FirstZone(get_zones_by_camera(c), CenterX(t), CenterY(t))

(***************************************************************************)
(* TrackingManager.update, lines 120-188.  Maps are functions from the     *)
(* track ids present; dict.get(k) is None for an absent key.               *)
(***************************************************************************)
Get(map, k) == IF k \in DOMAIN map THEN map[k] ELSE None

Put(map, k, v) == [x \in DOMAIN map \cup {k} |-> IF x = k THEN v ELSE map[x]]

EmptyMap == [x \in {} |-> None]

create_transition(c, tid, from, to, ts, times) ==
    [track_id |-> tid, camera_id |-> c, from_zone_id |-> from,
     to_zone_id |-> to, transition_time |-> ts,
     duration_in_prev_zone |->
        IF from # None /\ tid \in DOMAIN times THEN ts - times[tid] ELSE None]

get_track_status(t) ==
    IF t.state = 1 THEN "active" ELSE IF t.state = 2 THEN "lost" ELSE "finished"

\* History of one Track object (not program state): the zone resolved for it
\* in its previous reported frame, the time that zone was entered, the time
\* of its first report and the sum of the durations emitted for it.
SeenZone(m, u) == IF u \in DOMAIN m THEN m[u].zone ELSE None

SeenSince(m, u) == IF u \in DOMAIN m THEN m[u].since ELSE None

Observe(m, u, cur, ts, emitted) ==
    [zone |-> cur,
     since |-> IF SeenZone(m, u) # cur THEN ts ELSE SeenSince(m, u),
     first |-> IF u \in DOMAIN m THEN m[u].first ELSE ts,
     sum |-> (IF u \in DOMAIN m THEN m[u].sum ELSE 0) + emitted]

\* invoking every callback but in reverse registration order
CallAll_reversed(cbs, kind, u, calls) ==
    calls \o [i \in 1..Len(cbs) |->
                 [kind |-> kind, index |-> Len(cbs) + 1 - i, uid |-> u,
                  raised |-> cbs[Len(cbs) + 1 - i].raises]]

\* an exception leaving the loop: no callback after the first that raises
CallAll_abort(cbs, kind, u, calls) ==
    calls \o [i \in {j \in 1..Len(cbs) : \A k \in 1..(j - 1) : ~cbs[k].raises} |->
                 [kind |-> kind, index |-> i, uid |-> u, raised |-> cbs[i].raises]]

\* lines 150-154 and 182-186: for callback in callbacks: try: callback(x)
\* except Exception: log.  calls is the log of invocations of the frame.
CallAll(cbs, kind, u, calls) ==
    calls \o [i \in 1..Len(cbs) |->
                 [kind |-> kind, index |-> i, uid |-> u, raised |-> cbs[i].raises]]

\* cbs: [tracking, transition], the registered callback lists
\* acc: [zones, times, objects, transitions, seen, calls]
RECURSIVE ZoneLoop(_, _, _, _, _, _)
ZoneLoop(c, heap, tracks, ts, cbs, acc) ==
    IF tracks = <<>> THEN acc
    ELSE
      LET u == Head(tracks)
          t == heap[u]
          cur == ResolveZone(c, t)
          prev == Get(acc.zones, t.track_id)
          changed == prev # cur
          tr == create_transition(c, t.track_id, prev, cur, ts, acc.times)
                    @@ [uid |-> u]
          obj == [track_id |-> t.track_id, camera_id |-> c, uid |-> u,
                  bbox |-> t.bbox, confidence |-> t.score,
                  status |-> get_track_status(t), age |-> t.tracklet_len,
                  center_x |-> CenterX(t), center_y |-> CenterY(t),
                  zone_id |-> cur, last_seen |-> ts,
                  prev_seen |-> SeenZone(acc.seen, u),
                  prev_since |-> SeenSince(acc.seen, u)]
          emitted == IF changed /\ tr.duration_in_prev_zone # None
                     THEN tr.duration_in_prev_zone ELSE 0
          calls1 == IF changed THEN CallAll(cbs.transition, "transition", u, acc.calls)
                    ELSE acc.calls
      IN ZoneLoop(c, heap, Tail(tracks), ts, cbs,
            [zones |-> IF changed THEN Put(acc.zones, t.track_id, cur) ELSE acc.zones,
             times |-> IF changed THEN Put(acc.times, t.track_id, ts) ELSE acc.times,
             objects |-> Append(acc.objects, obj),
             transitions |-> IF changed THEN Append(acc.transitions, tr)
                             ELSE acc.transitions,
             seen |-> Put(acc.seen, u, Observe(acc.seen, u, cur, ts, emitted)),
             calls |-> CallAll(cbs.tracking, "tracking", u, calls1)])

(***************************************************************************)
(* Inputs: the detector's frames.  A frame is a list of detections taken   *)
(* from DetMenu in menu order; the detector's non-maximum suppression      *)
(* keeps the boxes of one frame from overlapping.                          *)
(***************************************************************************)
HomeBox == <<1000, 1000, 1500, 2000>>
TallBox == <<1000, 1000, 1550, 2100>>
MidBox == <<1150, 1000, 1650, 2000>>
FarBox == <<3000, 1000, 3500, 2000>>
FlatBox == <<2000, 1000, 2000, 2000>>

\* x2 <= x1 or y2 <= y1
Degenerate(bbox) == bbox[3] <= bbox[1] \/ bbox[4] <= bbox[2]

DetMenu ==
    << [bbox |-> HomeBox, score |-> 90],
       [bbox |-> FarBox, score |-> 90],
       [bbox |-> TallBox, score |-> 90],
       [bbox |-> MidBox, score |-> 30],
       [bbox |-> HomeBox, score |-> 50],
       [bbox |-> HomeBox, score |-> 10],
       [bbox |-> HomeBox, score |-> 5],
       [bbox |-> FlatBox, score |-> 90] >>

FullMenu == {i \in 1..Len(DetMenu) : ~Degenerate(DetMenu[i].bbox)}
FlatMenu == {1} \cup {i \in 1..Len(DetMenu) : Degenerate(DetMenu[i].bbox)}
MotionMenu == {1, 2, 3, 4}
SmallMenu == {1, 2}
\* one object: its box, the box grown, a low-score box overlapping it
LoneMenu == {1, 3, 4}

Separated(f, j) ==
    \A n \in 1..Len(f) :
        f[n] < j /\ bbox_iou(DetMenu[f[n]].bbox, DetMenu[j].bbox) = 0

RECURSIVE IndexFrames(_, _)
IndexFrames(menu, k) ==
    IF k = 0 THEN {<<>>}
    ELSE LET shorter == IndexFrames(menu, k - 1)
         IN shorter \cup
            UNION {{Append(f, j) : j \in {i \in menu : Separated(f, i)}}
                      : f \in {g \in shorter : Len(g) = k - 1}}

Frames(menu) ==
    {[n \in 1..Len(f) |-> DetMenu[f[n]]] : f \in IndexFrames(menu, MaxDets)}

(***************************************************************************)
(* State                                                                   *)
(***************************************************************************)
VARIABLES
    trackers,           \* TrackingManager.trackers: camera_id -> ByteTracker
    track_count,        \* Track._count, shared by every tracker of the process
    track_zones,        \* camera_id -> track_id -> zone_id
    track_zone_times,   \* camera_id -> track_id -> entry time
    lock_owner,         \* TrackingManager._lock: the thread holding it, or None
    pc,                 \* per calling thread: "idle" or "blocked" on the lock
    clock,              \* timestamp of the latest frame
    cfg,                \* constructor arguments and the solver the build has
    budget,             \* frames the run may still feed to each camera
    seen,               \* camera_id -> Track object -> history of its reports
    last,               \* what the latest call did and returned
    tracking_callbacks,     \* TrackingManager.tracking_callbacks
    transition_callbacks,   \* TrackingManager.transition_callbacks
    fed,                \* camera_id -> frames given to its tracker since it was
                        \* constructed or reset (history)
    inflight,           \* per thread: the update() it is part-way through
    alloc               \* per thread: the Track.next_id() call it is part-way
                        \* through and the ids it has obtained (history)

vars == <<trackers, track_count, track_zones, track_zone_times, lock_owner,
          pc, clock, cfg, budget, seen, last, tracking_callbacks,
          transition_callbacks, fed, inflight, alloc>>

Threads == {1, 2}

TestTrackBuffer == 2
LowTrackThresh == 3

Profile(thresh, sv, menu, f1, b1, f2, b2, adm) ==
    [track_thresh |-> thresh, track_buffer |-> TestTrackBuffer,
     match_thresh |-> DefaultMatchThresh, solver |-> sv, menu |-> menu,
     frames |-> <<f1, f2>>, busy |-> <<b1, b2>>, admin |-> adm, callbacks |-> 0]

\* the cameras a single-camera deployment sets up, one add_camera call each
SoloCameras == {1}

\* a callback is known by what it does when called: return or raise
CallbackMenu == {[raises |-> FALSE], [raises |-> TRUE]}

\* one camera with up to MaxCallbacks callbacks registered in each list
CallbackProfile ==
    [Profile(DefaultTrackThresh, "scipy", SmallMenu,
             MaxWide - 1, MaxWide - 1, 0, 0, Cardinality(SoloCameras))
        EXCEPT !.callbacks = MaxCallbacks]

\* one camera whose detector also emits a box of no width
FlatProfile ==
    Profile(DefaultTrackThresh, "scipy", FlatMenu, MaxWide, MaxWide, 0, 0,
            Cardinality(SoloCameras))

\* one long-lived camera watching one object; one camera watching two;
\* every score boundary; every solver; two cameras
\* of which one is observed; two cameras both observed, one add_camera call
\* each; callbacks; degenerate boxes
Profiles ==
    {CallbackProfile, FlatProfile}
    \cup
    {Profile(DefaultTrackThresh, "scipy", LoneMenu,
             MaxFrames, MaxBusy, 0, 0, Cardinality(SoloCameras)),
     Profile(DefaultTrackThresh, "scipy", MotionMenu,
             MaxFrames - 1, MaxBusy, 0, 0, Cardinality(SoloCameras))}
    \cup
    {Profile(th, "scipy", FullMenu, MaxFrames - 2, MaxBusy - 1, 0, 0,
             Cardinality(SoloCameras))
        : th \in {DefaultTrackThresh, LowTrackThresh}}
    \cup
    {Profile(DefaultTrackThresh, sv, MotionMenu,
             MaxFrames - 2, MaxBusy - 1, 0, 0, Cardinality(SoloCameras))
        : sv \in {"lap", "greedy"}}
    \cup
    {Profile(DefaultTrackThresh, "scipy", SmallMenu,
             0, 0, MaxWide, MaxWide, MaxAdmin - 1)}
    \cup
    {Profile(DefaultTrackThresh, "scipy", SmallMenu,
             MaxWide - 1, MaxWide - 1, MaxWide - 1, MaxWide - 1,
             Cardinality(Cameras))}

IdleLast ==
    [op |-> "none", cam |-> 0, dets |-> <<>>, returned |-> FALSE,
     raised |-> FALSE, trace |-> EmptyTrace, pre |-> <<>>, pre_count |-> 0,
     objects |-> <<>>, transitions |-> <<>>, tracks |-> <<>>, calls |-> <<>>]

NoFlight == [cam |-> 0, dets |-> <<>>, ts |-> 0, heap |-> <<>>, tracks |-> <<>>]

NoAlloc == [at |-> "idle", reg |-> 0, got |-> <<>>]

InitWith(profiles) ==
    /\ trackers = [c \in {} |-> 0]
    /\ track_count = 0
    /\ track_zones = [c \in Cameras |-> EmptyMap]
    /\ track_zone_times = [c \in Cameras |-> EmptyMap]
    /\ lock_owner = None
    /\ pc = [t \in Threads |-> "idle"]
    /\ clock = 0
    /\ \E p \in profiles :
          /\ cfg = [track_thresh |-> p.track_thresh, track_buffer |-> p.track_buffer,
                    match_thresh |-> p.match_thresh, solver |-> p.solver,
                    menu |-> p.menu]
          /\ budget = [frames |-> p.frames, busy |-> p.busy, admin |-> p.admin,
                       callbacks |-> p.callbacks]
    /\ seen = [c \in Cameras |-> EmptyMap]
    /\ last = IdleLast
    /\ tracking_callbacks = <<>>
    /\ transition_callbacks = <<>>
    /\ fed = [c \in Cameras |-> <<>>]
    /\ inflight = [t \in Threads |-> NoFlight]
    /\ alloc = [t \in Threads |-> NoAlloc]

Init == InitWith(Profiles)

(***************************************************************************)
(* Calls.  A call is made by an idle thread and runs to its return, unless *)
(* it has to wait for _lock: threading.Lock is not reentrant and nothing   *)
(* releases a lock whose holder waits, so a waiting thread stays blocked.  *)
(***************************************************************************)
Caller == CHOOSE t \in Threads : pc[t] = "idle" /\ \A o \in Threads : pc[o] = "idle" => t <= o

CanCall == \E t \in Threads : pc[t] = "idle"

Block(op, c) ==
    /\ pc' = [pc EXCEPT ![Caller] = "blocked"]
    /\ last' = [IdleLast EXCEPT !.op = op, !.cam = c]
    /\ UNCHANGED <<trackers, track_count, track_zones, track_zone_times,
                   lock_owner, clock, cfg, budget, seen, fed>>

\* the callback lists and the threads' unfinished calls are left alone
Quiet == UNCHANGED <<tracking_callbacks, transition_callbacks, inflight, alloc>>

Admin ==
    /\ CanCall
    /\ budget.admin > 0

Spend == budget' = [budget EXCEPT !.admin = @ - 1]

\* lines 65-84
AddCamera(c) ==
    /\ Admin
    /\ Quiet
    /\ IF lock_owner # None THEN Block("add_camera", c)
       ELSE /\ IF c \in DOMAIN trackers
               THEN UNCHANGED <<trackers, track_count, seen, fed>>
               ELSE /\ trackers' = [x \in DOMAIN trackers \cup {c} |->
                                      IF x = c
                                      THEN NewTracker(cfg.track_thresh, cfg.track_buffer,
                                                      cfg.match_thresh)
                                      ELSE trackers[x]]
                    /\ track_count' = 0
                    /\ seen' = [seen EXCEPT ![c] = EmptyMap]
                    /\ fed' = [fed EXCEPT ![c] = <<>>]
            /\ last' = [IdleLast EXCEPT !.op = "add_camera", !.cam = c, !.returned = TRUE]
            /\ Spend
            /\ UNCHANGED <<track_zones, track_zone_times, lock_owner, pc, clock, cfg>>

\* lines 86-91
RemoveCamera(c) ==
    /\ Admin
    /\ Quiet
    /\ IF lock_owner # None THEN Block("remove_camera", c)
       ELSE /\ IF c \in DOMAIN trackers
               THEN /\ trackers' = [x \in DOMAIN trackers \ {c} |-> trackers[x]]
                    /\ seen' = [seen EXCEPT ![c] = EmptyMap]
                    /\ fed' = [fed EXCEPT ![c] = <<>>]
               ELSE UNCHANGED <<trackers, seen, fed>>
            /\ last' = [IdleLast EXCEPT !.op = "remove_camera", !.cam = c, !.returned = TRUE]
            /\ Spend
            /\ UNCHANGED <<track_count, track_zones, track_zone_times, lock_owner,
                           pc, clock, cfg>>

\* lines 247-254
ResetCamera(c) ==
    /\ Admin
    /\ Quiet
    /\ IF lock_owner # None THEN Block("reset_camera", c)
       ELSE /\ IF c \in DOMAIN trackers
               THEN /\ trackers' = [trackers EXCEPT ![c] = TrackerReset(@)]
                    /\ track_count' = 0
                    /\ track_zones' = [track_zones EXCEPT ![c] = EmptyMap]
                    /\ track_zone_times' = [track_zone_times EXCEPT ![c] = EmptyMap]
                    /\ seen' = [seen EXCEPT ![c] = EmptyMap]
                    /\ fed' = [fed EXCEPT ![c] = <<>>]
               ELSE UNCHANGED <<trackers, track_count, track_zones,
                                track_zone_times, seen, fed>>
            /\ last' = [IdleLast EXCEPT !.op = "reset_camera", !.cam = c, !.returned = TRUE]
            /\ Spend
            /\ UNCHANGED <<lock_owner, pc, clock, cfg>>

\* lines 256-264
ResetAll ==
    /\ Admin
    /\ Quiet
    /\ IF lock_owner # None THEN Block("reset_all", 0)
       ELSE /\ trackers' = [x \in DOMAIN trackers |-> TrackerReset(trackers[x])]
            /\ track_count' = IF DOMAIN trackers = {} THEN track_count ELSE 0
            /\ track_zones' = [c \in Cameras |-> EmptyMap]
            /\ track_zone_times' = [c \in Cameras |-> EmptyMap]
            /\ seen' = [c \in Cameras |-> EmptyMap]
            /\ fed' = [c \in Cameras |-> <<>>]
            /\ last' = [IdleLast EXCEPT !.op = "reset_all", !.returned = TRUE]
            /\ Spend
            /\ UNCHANGED <<lock_owner, pc, clock, cfg>>

\* lines 266-303: get_active_tracks and get_stats take the lock and read
GetStats ==
    /\ Admin
    /\ Quiet
    /\ IF lock_owner # None THEN Block("get_stats", 0)
       ELSE /\ last' = [IdleLast EXCEPT !.op = "get_stats", !.returned = TRUE]
            /\ Spend
            /\ UNCHANGED <<trackers, track_count, track_zones, track_zone_times,
                           lock_owner, pc, clock, cfg, seen, fed>>

\* lines 120-188 on the manager's maps as they are now
ZonePass(c, heap, tracks, ts) ==
    ZoneLoop(c, heap, tracks, ts,
             [tracking |-> tracking_callbacks, transition |-> transition_callbacks],
             [zones |-> track_zones[c], times |-> track_zone_times[c],
              objects |-> <<>>, transitions |-> <<>>, seen |-> seen[c],
              calls |-> <<>>])

\* lines 93-188
Update(c, dets) ==
    /\ CanCall
    /\ Quiet
    /\ budget.frames[c] > 0
    /\ dets # <<>> => budget.busy[c] > 0
    /\ IF lock_owner # None THEN Block("update", c)
       ELSE IF c \notin DOMAIN trackers
       THEN \* with self._lock: ... self.add_camera(c) -> with self._lock:
            /\ lock_owner' = Caller
            /\ pc' = [pc EXCEPT ![Caller] = "blocked"]
            /\ last' = [IdleLast EXCEPT !.op = "update", !.cam = c, !.dets = dets]
            /\ UNCHANGED <<trackers, track_count, track_zones, track_zone_times,
                           clock, cfg, budget, seen, fed>>
       ELSE
         \E r \in {ByteTrackerUpdate(trackers[c], dets, track_count, cfg.solver)} :
         \E z \in {ZonePass(c, r.trk.heap, r.output, clock + 1)} :
         LET ts == clock + 1
         IN /\ trackers' = [trackers EXCEPT ![c] = r.trk]
            /\ track_count' = r.count
            /\ clock' = ts
            /\ budget' = [budget EXCEPT !.frames[c] = @ - 1,
                                         !.busy[c] = IF dets = <<>> THEN @ ELSE @ - 1]
            /\ track_zones' = [track_zones EXCEPT ![c] = z.zones]
            /\ track_zone_times' = [track_zone_times EXCEPT ![c] = z.times]
            /\ seen' = [seen EXCEPT ![c] = z.seen]
            /\ fed' = [fed EXCEPT ![c] = Append(@, dets)]
            /\ last' = [op |-> "update", cam |-> c, dets |-> dets,
                        returned |-> ~r.raised, raised |-> r.raised,
                        trace |-> r.trace, pre |-> trackers[c],
                        pre_count |-> track_count,
                        objects |-> z.objects, transitions |-> z.transitions,
                        tracks |-> r.output, calls |-> z.calls]
            /\ UNCHANGED <<lock_owner, pc, cfg>>

\* the callbacks are registered when the service starts, before any camera
\* is added (main.py 216-217)
Startup == trackers = [c \in {} |-> 0] /\ clock = 0 /\ lock_owner = None

Register(op) ==
    /\ budget' = budget
    /\ last' = [IdleLast EXCEPT !.op = op, !.returned = TRUE]
    /\ UNCHANGED <<trackers, track_count, track_zones, track_zone_times,
                   lock_owner, pc, clock, cfg, seen, fed, inflight, alloc>>

\* lines 239-241
AddTrackingCallback(cb) ==
    /\ Startup
    /\ Len(tracking_callbacks) < budget.callbacks
    /\ tracking_callbacks' = Append(tracking_callbacks, cb)
    /\ UNCHANGED transition_callbacks
    /\ Register("add_tracking_callback")

\* lines 243-245
AddTransitionCallback(cb) ==
    /\ Startup
    /\ Len(transition_callbacks) < budget.callbacks
    /\ transition_callbacks' = Append(transition_callbacks, cb)
    /\ UNCHANGED tracking_callbacks
    /\ Register("add_transition_callback")

Next ==
    \/ \E cb \in CallbackMenu : AddTrackingCallback(cb)
    \/ \E cb \in CallbackMenu : AddTransitionCallback(cb)
    \/ \E c \in Cameras : AddCamera(c)
    \/ \E c \in Cameras : RemoveCamera(c)
    \/ \E c \in Cameras : ResetCamera(c)
    \/ ResetAll
    \/ GetStats
    \/ \E c \in Cameras : \E dets \in Frames(cfg.menu) : Update(c, dets)

Spec == Init /\ [][Next]_vars

(***************************************************************************)
(* update() step by step.  The lock covers lines 111-115 only: the call to *)
(* tracker.update (118) and the zone loop (120-188) run without it, so     *)
(* another thread's reset_camera or reset_all can run in between.  A step  *)
(* is one of the three parts; one update is in progress at a time.         *)
(***************************************************************************)
NoneInFlight == \A t \in Threads : pc[t] \in {"idle", "blocked"}

\* lines 110-115
UpdateFetch(c, dets) ==
    /\ CanCall
    /\ NoneInFlight
    /\ budget.frames[c] > 0
    /\ UNCHANGED <<tracking_callbacks, transition_callbacks, alloc>>
    /\ IF lock_owner # None THEN Block("update", c) /\ UNCHANGED inflight
       ELSE IF c \notin DOMAIN trackers
       THEN /\ lock_owner' = Caller
            /\ pc' = [pc EXCEPT ![Caller] = "blocked"]
            /\ last' = [IdleLast EXCEPT !.op = "update", !.cam = c, !.dets = dets]
            /\ UNCHANGED <<trackers, track_count, track_zones, track_zone_times,
                           clock, cfg, budget, seen, fed, inflight>>
       ELSE /\ pc' = [pc EXCEPT ![Caller] = "fetched"]
            /\ inflight' = [inflight EXCEPT ![Caller] =
                               [NoFlight EXCEPT !.cam = c, !.dets = dets,
                                                !.ts = clock + 1]]
            /\ clock' = clock + 1
            /\ budget' = [budget EXCEPT !.frames[c] = @ - 1]
            /\ last' = [IdleLast EXCEPT !.op = "update", !.cam = c, !.dets = dets]
            /\ UNCHANGED <<trackers, track_count, track_zones, track_zone_times,
                           lock_owner, cfg, seen, fed>>

\* line 118: tracks = tracker.update(detections)
UpdateTrack(t) ==
    /\ pc[t] = "fetched"
    /\ \E r \in {ByteTrackerUpdate(trackers[inflight[t].cam], inflight[t].dets,
                                    track_count, cfg.solver)} :
         LET c == inflight[t].cam
         IN /\ trackers' = [trackers EXCEPT ![c] = r.trk]
            /\ track_count' = r.count
            /\ fed' = [fed EXCEPT ![c] = Append(@, inflight[t].dets)]
            /\ pc' = [pc EXCEPT ![t] = IF r.raised THEN "idle" ELSE "tracked"]
            /\ inflight' = [inflight EXCEPT ![t] =
                               IF r.raised THEN NoFlight
                               ELSE [@ EXCEPT !.heap = r.trk.heap, !.tracks = r.output]]
            /\ last' = [IdleLast EXCEPT !.op = "update", !.cam = c,
                                        !.dets = inflight[t].dets,
                                        !.raised = r.raised, !.trace = r.trace,
                                        !.pre = trackers[c], !.pre_count = track_count]
    /\ UNCHANGED <<track_zones, track_zone_times, lock_owner, clock, cfg, budget,
                   seen, tracking_callbacks, transition_callbacks, alloc>>

\* lines 120-188 on the Track objects tracker.update returned
UpdateZones(t) ==
    /\ pc[t] = "tracked"
    /\ \E z \in {ZonePass(inflight[t].cam, inflight[t].heap, inflight[t].tracks,
                           inflight[t].ts)} :
         LET c == inflight[t].cam
         IN /\ track_zones' = [track_zones EXCEPT ![c] = z.zones]
            /\ track_zone_times' = [track_zone_times EXCEPT ![c] = z.times]
            /\ seen' = [seen EXCEPT ![c] = z.seen]
            /\ last' = [IdleLast EXCEPT !.op = "update", !.cam = c,
                                        !.dets = inflight[t].dets, !.returned = TRUE,
                                        !.objects = z.objects,
                                        !.transitions = z.transitions,
                                        !.tracks = inflight[t].tracks,
                                        !.calls = z.calls]
    /\ pc' = [pc EXCEPT ![t] = "idle"]
    /\ inflight' = [inflight EXCEPT ![t] = NoFlight]
    /\ UNCHANGED <<trackers, track_count, lock_owner, clock, cfg, budget, fed,
                   tracking_callbacks, transition_callbacks, alloc>>

\* one camera, its frames, and the resets another thread makes
RaceProfile ==
    Profile(DefaultTrackThresh, "scipy", SmallMenu, MaxWide, MaxWide, 0, 0,
            MaxAdmin - 2)

InitRace == InitWith({RaceProfile})

NextRace ==
    \/ \E c \in SoloCameras : AddCamera(c)
    \/ \E c \in SoloCameras : ResetCamera(c)
    \/ ResetAll
    \/ \E c \in SoloCameras : \E dets \in Frames(cfg.menu) : UpdateFetch(c, dets)
    \/ \E t \in Threads : UpdateTrack(t)
    \/ \E t \in Threads : UpdateZones(t)

SpecRace == InitRace /\ [][NextRace]_vars

(***************************************************************************)
(* Track.next_id() step by step, lines 159-163.  tracker.update runs        *)
(* outside TrackingManager._lock (line 118) and next_id takes no lock, so   *)
(* the camera threads' calls interleave: `Track._count += 1` reads the      *)
(* class attribute, adds, and writes it back; `return Track._count` reads   *)
(* it again.  Thread t is the thread of camera t.                           *)
(***************************************************************************)
Rest ==
    UNCHANGED <<trackers, track_zones, track_zone_times, lock_owner, pc, clock,
                cfg, budget, seen, last, tracking_callbacks,
                transition_callbacks, fed, inflight>>

\* Track._count + 1 is computed
NextIdRead(t) ==
    /\ alloc[t].at = "idle"
    /\ Len(alloc[t].got) < budget.frames[t]
    /\ alloc' = [alloc EXCEPT ![t].at = "read", ![t].reg = track_count + 1]
    /\ UNCHANGED track_count
    /\ Rest

\* Track._count = <the sum>
NextIdWrite(t) ==
    /\ alloc[t].at = "read"
    /\ track_count' = alloc[t].reg
    /\ alloc' = [alloc EXCEPT ![t].at = "written"]
    /\ Rest

\* return Track._count
NextIdReturn(t) ==
    /\ alloc[t].at = "written"
    /\ alloc' = [alloc EXCEPT ![t].at = "idle", ![t].got = Append(@, track_count)]
    /\ UNCHANGED track_count
    /\ Rest

\* two cameras, each activating a new track in every one of its frames
IdsProfile ==
    Profile(DefaultTrackThresh, "scipy", SmallMenu, MaxWide + 1, MaxWide + 1,
            MaxWide + 1, MaxWide + 1, 0)

InitIds == InitWith({IdsProfile})

NextIds ==
    \/ \E t \in Threads : NextIdRead(t)
    \/ \E t \in Threads : NextIdWrite(t)
    \/ \E t \in Threads : NextIdReturn(t)

SpecIds == InitIds /\ [][NextIds]_vars

(***************************************************************************)
(* Properties                                                              *)
(***************************************************************************)
\* the latest call was an update that ran ByteTracker.update
UpdateDone == last.op = "update" /\ (last.returned \/ last.raised)

Post == trackers[last.cam].heap

FrameOfLast == last.pre.frame_id + 1

MatchedIn(d) ==
    \E p \in last.trace.m1 \cup last.trace.m2 \cup last.trace.m3 : p[2] = d

SpawnedFrom(d) == \E p \in last.trace.spawned : p[2] = d

\* C1: within one ByteTracker instance no two distinct activated tracks
\* carry the same track_id, whatever happens to other instances.
C1_UniqueTrackIds ==
    \A c \in DOMAIN trackers :
        \A u \in DOMAIN trackers[c].heap : \A v \in DOMAIN trackers[c].heap :
            (u # v) => trackers[c].heap[u].track_id # trackers[c].heap[v].track_id

\* C2: no Track object is in more than one of tracked_tracks, lost_tracks
\* and removed_tracks.
C2_PoolsDisjoint ==
    \A c \in DOMAIN trackers :
        /\ Range(trackers[c].tracked_tracks) \cap Range(trackers[c].lost_tracks) = {}
        /\ Range(trackers[c].tracked_tracks) \cap Range(trackers[c].removed_tracks) = {}
        /\ Range(trackers[c].lost_tracks) \cap Range(trackers[c].removed_tracks) = {}

\* C3: a track whose state is Removed before an update() is neither matched
\* nor updated nor re-activated by it: its state is still Removed afterwards.
C3_RemovedIsTerminal ==
    UpdateDone =>
        \A u \in DOMAIN last.pre.heap :
            last.pre.heap[u].state = Removed =>
                /\ Post[u].state = Removed
                /\ \A p \in last.trace.m1 \cup last.trace.m2 \cup last.trace.m3 : p[1] # u

\* C4: a high-confidence detection that reappears at the last box of a track
\* undetected for K > max_time_lost frames gets a new track with a track_id
\* other than the old one, and the old track is not reused.
C4_NewIdAfterExpiry ==
    UpdateDone =>
        \A u \in DOMAIN last.pre.heap : \A i \in 1..Len(last.trace.high) :
            LET old == last.pre.heap[u]
                d == last.trace.high[i]
            IN (/\ old.is_activated
                /\ FrameOfLast - old.frame_id - 1 > last.pre.max_time_lost
                /\ d.bbox = old.bbox)
               => /\ <<u, d>> \notin last.trace.m1
                  /\ \E p \in last.trace.spawned :
                        p[2] = d /\ Post[p[1]].track_id # old.track_id

\* C5: a Lost track undetected for 1 <= K < track_buffer frames whose
\* predicted box reaches the stage-1 IoU threshold with a high-confidence
\* detection (each being the other's only candidate) is re-activated with its
\* own track_id, and no track is created for that detection.
C5_ReactivateKeepsId ==
    UpdateDone =>
      /\ \A u \in DOMAIN last.pre.heap :
            (last.pre.heap[u].state = Lost) => u \in Range(last.trace.pool)
      /\ \A i \in 1..Len(last.trace.pool) : \A d \in Range(last.trace.high) :
            LET u == last.trace.pool[i]
                old == last.pre.heap[u]
                K == FrameOfLast - old.frame_id - 1
                reach(j, e) == bbox_iou(tlbr(last.trace.predicted[j]), e.bbox)
                                    >= last.pre.match_thresh
            IN (/\ old.state = Lost
                /\ K >= 1 /\ K < last.pre.track_buffer
                /\ reach(i, d)
                /\ \A j \in 1..Len(last.trace.pool) : j # i => ~reach(j, d)
                /\ \A e \in Range(last.trace.high) : e # d => ~reach(i, e))
               => /\ <<u, d>> \in last.trace.m1
                  /\ Post[u].track_id = old.track_id
                  /\ Post[u].state = Tracked
                  /\ Post[u].tracklet_len = 0
                  /\ ~SpawnedFrom(d)
                  /\ track_count = last.pre_count + Cardinality(last.trace.spawned)

C5_Witness ==
    /\ UpdateDone
    /\ \E p \in last.trace.m1 :
          /\ last.pre.heap[p[1]].state = Lost
          /\ FrameOfLast - last.pre.heap[p[1]].frame_id - 1 >= 1
          /\ FrameOfLast - last.pre.heap[p[1]].frame_id - 1 < last.pre.track_buffer
          /\ Post[p[1]].state = Tracked

\* C6: update() for a camera without a tracker creates the tracker and
\* returns; no caller is left blocked and the lock is free afterwards.
C6_LazyCreateReturns ==
    (last.op = "update") =>
        /\ last.cam \in DOMAIN trackers
        /\ lock_owner = None
        /\ \A t \in Threads : pc[t] = "idle"

\* C7: a detection is high-confidence iff score >= track_thresh and a
\* stage-2 candidate iff 0.1 <= score < track_thresh.
C7_PartitionBoundaries ==
    UpdateDone =>
        \A i \in 1..Len(last.dets) :
            LET d == last.dets[i]
            IN /\ (d.score >= last.pre.track_thresh) <=> (d \in Range(last.trace.high))
               /\ (d.score >= LowScoreFloor /\ d.score < last.pre.track_thresh)
                     <=> (d \in Range(last.trace.second))

\* C8: whatever track_thresh is, a detection with score < 0.1 is in neither
\* matching list, is matched to no track and spawns no track.
C8_TinyScoresIgnored ==
    UpdateDone =>
        \A i \in 1..Len(last.dets) :
            LET d == last.dets[i]
            IN d.score < LowScoreFloor =>
                /\ d \notin Range(last.trace.high)
                /\ d \notin Range(last.trace.second)
                /\ ~MatchedIn(d)
                /\ ~SpawnedFrom(d)

\* C9: ids are allocated only to new tracks, and a track is created only for
\* a detection with score >= track_thresh that no track was matched to in
\* this frame; a low-confidence detection never spawns a track.
C9_SpawnOnlyUnmatchedHigh ==
    UpdateDone =>
        /\ track_count = last.pre_count + Cardinality(last.trace.spawned)
        /\ Len(Post) = Len(last.pre.heap) + Cardinality(last.trace.spawned)
        /\ \A p \in last.trace.spawned :
              /\ p[2] \in Range(last.dets)
              /\ p[2].score >= last.pre.track_thresh
              /\ ~MatchedIn(p[2])
              /\ p[1] \notin DOMAIN last.pre.heap
              /\ Post[p[1]].track_id > last.pre_count
        /\ \A d \in Range(last.trace.second) : ~SpawnedFrom(d)

C9_Witness ==
    /\ UpdateDone
    /\ last.trace.spawned # {}
    /\ \E d \in Range(last.dets) : MatchedIn(d) /\ ~SpawnedFrom(d)

\* C10: for each returned track a ZoneTransition is emitted iff the zone
\* resolved now differs from the zone resolved at the track's previous
\* report (none at its first sighting); then exactly one, from the previous
\* zone to the current one, and the stored zone and entry time become the
\* current zone and timestamp.
C10_TransitionIffZoneChanged ==
    (UpdateDone /\ last.returned) =>
        \A i \in 1..Len(last.objects) :
            LET o == last.objects[i]
                em == {k \in 1..Len(last.transitions) : last.transitions[k].uid = o.uid}
            IN IF o.prev_seen # o.zone_id
               THEN /\ Cardinality(em) = 1
                    /\ \A k \in em :
                          /\ last.transitions[k].from_zone_id = o.prev_seen
                          /\ last.transitions[k].to_zone_id = o.zone_id
                    /\ Get(track_zones[last.cam], o.track_id) = o.zone_id
                    /\ Get(track_zone_times[last.cam], o.track_id) = clock
               ELSE em = {}

\* the TrackedObject reported for Track object u in the latest update
ObjectOf(u) == CHOOSE o \in Range(last.objects) : o.uid = u

\* C11: every emitted ZoneTransition with a non-null from_zone_id comes from
\* a track that was in that zone at its previous report and has
\* duration_in_prev_zone = transition_time - the time that track entered it;
\* one with a null from_zone_id has duration_in_prev_zone = null.
C11_DurationFromEntry ==
    (UpdateDone /\ last.returned) =>
        \A k \in 1..Len(last.transitions) :
            LET tr == last.transitions[k]
                o == ObjectOf(tr.uid)
            IN IF tr.from_zone_id # None
               THEN /\ o.prev_seen = tr.from_zone_id
                    /\ o.prev_since # None
                    /\ tr.duration_in_prev_zone = tr.transition_time - o.prev_since
               ELSE tr.duration_in_prev_zone = None

\* C12: for every reported track, the durations emitted for it so far plus
\* the time since its stored zone-entry timestamp add up to the time between
\* its first and its latest report.
C12_DurationsCoverLifetime ==
    (UpdateDone /\ last.returned) =>
        \A i \in 1..Len(last.objects) :
            LET o == last.objects[i]
                g == seen[last.cam][o.uid]
                times == track_zone_times[last.cam]
                elapsed == IF o.track_id \in DOMAIN times
                           THEN o.last_seen - times[o.track_id] ELSE 0
            IN g.sum + elapsed = o.last_seen - g.first

\* the callback invocations of the latest update made for Track object u
CallsFor(u) == SelectSeq(last.calls, LAMBDA e : e.uid = u)

\* whether the latest update emitted a ZoneTransition for Track object u
Emitted(u) == \E k \in 1..Len(last.transitions) : last.transitions[k].uid = u

\* C13: within one update, for each track a ZoneTransition is emitted for,
\* the transition callbacks are invoked in registration order, all of them
\* before the first tracking callback for that track; the tracking callbacks
\* follow in registration order.
C13_CallbackOrder ==
    (UpdateDone /\ last.returned) =>
        \A i \in 1..Len(last.objects) :
            LET u == last.objects[i].uid
                nZ == IF Emitted(u) THEN Len(transition_callbacks) ELSE 0
                nT == Len(tracking_callbacks)
                log == CallsFor(u)
            IN /\ Len(log) = nZ + nT
               /\ \A j \in 1..nZ : log[j].kind = "transition" /\ log[j].index = j
               /\ \A j \in 1..nT :
                     log[nZ + j].kind = "tracking" /\ log[nZ + j].index = j

C13_Witness ==
    /\ UpdateDone /\ last.returned
    /\ Len(transition_callbacks) >= 2
    /\ Len(tracking_callbacks) >= 2
    /\ \E i \in 1..Len(last.objects) : Emitted(last.objects[i].uid)

\* C14: when a callback raises during an update, every callback of every
\* event is still invoked, every track returned by the tracker is reported,
\* the zone and entry-time maps hold each emitted transition, and the call
\* returns.
C14_CallbackErrorsContained ==
    (UpdateDone /\ ~last.raised /\ \E k \in 1..Len(last.calls) : last.calls[k].raised) =>
        /\ last.returned
        /\ Len(last.objects) = Len(last.tracks)
        /\ \A i \in 1..Len(last.tracks) :
              LET u == last.tracks[i]
              IN /\ last.objects[i].uid = u
                 /\ \A j \in 1..Len(tracking_callbacks) :
                       \E e \in Range(CallsFor(u)) : e.kind = "tracking" /\ e.index = j
                 /\ Emitted(u) =>
                       \A j \in 1..Len(transition_callbacks) :
                          \E e \in Range(CallsFor(u)) :
                             e.kind = "transition" /\ e.index = j
        /\ \A k \in 1..Len(last.transitions) :
              LET tr == last.transitions[k]
              IN /\ Get(track_zones[last.cam], tr.track_id) = tr.to_zone_id
                 /\ Get(track_zone_times[last.cam], tr.track_id) = tr.transition_time

C14_Witness ==
    /\ UpdateDone /\ last.returned
    /\ Len(transition_callbacks) >= 2 /\ transition_callbacks[1].raises
    /\ Len(tracking_callbacks) >= 2 /\ tracking_callbacks[1].raises
    /\ Len(last.objects) >= 2
    /\ last.transitions # <<>>

\* C15: after reset_camera(c) returns, camera c has no zone or entry-time
\* entry and its tracker, if any, has frame_id 0 and empty track lists;
\* after reset_all() this holds for every camera.
C15_ResetClearsCamera ==
    LET Clean(c) ==
            /\ track_zones[c] = EmptyMap
            /\ track_zone_times[c] = EmptyMap
            /\ c \in DOMAIN trackers =>
                  /\ trackers[c].frame_id = 0
                  /\ trackers[c].tracked_tracks = <<>>
                  /\ trackers[c].lost_tracks = <<>>
                  /\ trackers[c].removed_tracks = <<>>
    IN /\ (last.op = "reset_camera" /\ last.returned) => Clean(last.cam)
       /\ (last.op = "reset_all" /\ last.returned) => \A c \in Cameras : Clean(c)

\* the calls that name one camera
CameraOps == {"update", "add_camera", "reset_camera", "remove_camera"}

\* C16: a call on camera A leaves every other camera B as it was: B's
\* tracker, the counter B's next track ids come from, and B's zone and
\* entry-time entries.
C16_CamerasIndependent ==
    [][\A b \in DOMAIN trackers :
          (last'.op \in CameraOps /\ last'.cam # b) =>
             /\ b \in DOMAIN trackers'
             /\ trackers'[b] = trackers[b]
             /\ track_count' = track_count
             /\ track_zones'[b] = track_zones[b]
             /\ track_zone_times'[b] = track_zone_times[b]]_vars

\* C17: after an update, the zone map and the entry-time map of the camera
\* hold no entry for the track_id of a track its tracker has Removed.
C17_RemovedTracksPruned ==
    UpdateDone =>
        \A u \in DOMAIN Post :
            Post[u].state = Removed =>
                /\ Post[u].track_id \notin DOMAIN track_zones[last.cam]
                /\ Post[u].track_id \notin DOMAIN track_zone_times[last.cam]

\* the zones that are switched on
ActiveZoneIds == {Zones[i].zone_id : i \in {j \in DOMAIN Zones : Zones[j].active}}

\* C18: a reported track's zone_id is null or an active zone, null when its
\* centre lies in inactive zones only, and no ZoneTransition has an inactive
\* zone as its to_zone_id.
C18_OnlyActiveZones ==
    (UpdateDone /\ last.returned) =>
        /\ \A i \in 1..Len(last.objects) :
              last.objects[i].zone_id \in ActiveZoneIds \cup {None}
        /\ \A k \in 1..Len(last.transitions) :
              last.transitions[k].to_zone_id \in ActiveZoneIds \cup {None}

\* C19: two trackers that were given the same frames since their
\* construction hold the same tracks with the same track_ids, also when
\* both are alive and their updates interleave.
C19_SameInputSameIds ==
    \A a \in DOMAIN trackers : \A b \in DOMAIN trackers :
        (fed[a] = fed[b]) => trackers[a] = trackers[b]

\* the track ids camera c's tracker holds
HeldIds(c) == {trackers[c].heap[u].track_id : u \in DOMAIN trackers[c].heap}

\* C20: update(c) is atomic with respect to reset_camera(c) and reset_all()
\* of another thread: once both have finished, every zone and entry-time
\* entry of camera c belongs to a track its tracker holds, as it does when
\* the two calls run one after the other.
C20_UpdateAtomic ==
    NoneInFlight =>
        \A c \in DOMAIN trackers :
            /\ DOMAIN track_zones[c] \subseteq HeldIds(c)
            /\ DOMAIN track_zone_times[c] \subseteq HeldIds(c)

\* the tracker of the latest update was as its constructor leaves it
FreshBefore ==
    last.pre = NewTracker(cfg.track_thresh, cfg.track_buffer, cfg.match_thresh)

\* C21: the first update() of a newly constructed tracker, also one created
\* while other cameras are tracking, with a single detection of score 0.9
\* returns exactly one track, with track_id 1 and state Tracked.
C21_FirstTrackIsOne ==
    (UpdateDone /\ FreshBefore /\ Len(last.dets) = 1 /\ last.dets[1].score = 90) =>
        /\ last.returned
        /\ Len(last.tracks) = 1
        /\ Post[last.tracks[1]].track_id = 1
        /\ Post[last.tracks[1]].state = Tracked

\* Track object u was matched to a detection in the latest update
MatchedTrack(u) ==
    \E p \in last.trace.m1 \cup last.trace.m2 \cup last.trace.m3 : p[1] = u

\* C22: a track matched while Tracked keeps its track_id and its tracklet_len
\* grows by exactly 1; activate() and re_activate() set tracklet_len to 0 and
\* nothing else changes it, so it counts the update() calls since the last
\* (re)activation.
C22_TrackletLenCounts ==
    UpdateDone =>
        /\ \A u \in DOMAIN last.pre.heap :
              LET old == last.pre.heap[u]
              IN /\ Post[u].track_id = old.track_id
                 /\ Post[u].tracklet_len =
                       IF ~MatchedTrack(u) THEN old.tracklet_len
                       ELSE IF old.state = Tracked THEN old.tracklet_len + 1
                       ELSE 0
        /\ \A p \in last.trace.spawned : Post[p[1]].tracklet_len = 0

C22_Witness ==
    /\ UpdateDone /\ last.returned
    /\ \E u \in DOMAIN last.pre.heap :
          /\ MatchedTrack(u)
          /\ last.pre.heap[u].state = Tracked
          /\ last.pre.heap[u].tracklet_len >= 1
          /\ last.pre.heap[u].frame_id = last.pre.frame_id
          /\ Post[u].tracklet_len = last.pre.heap[u].tracklet_len + 1

\* the Track objects tracker trk holds in its three lists
Held(trk) ==
    Range(trk.tracked_tracks) \cup Range(trk.lost_tracks) \cup Range(trk.removed_tracks)

\* C23: update([]) does not raise; every track the tracker held as Tracked
\* is Lost afterwards, no track is created, frame_id advances by 1, and a track
\* that was Lost is still Lost, or Removed when the frame is more than
\* max_time_lost past its last update.
C23_EmptyFrame ==
    (UpdateDone /\ last.dets = <<>>) =>
        /\ last.returned /\ ~last.raised
        /\ DOMAIN Post = DOMAIN last.pre.heap
        /\ track_count = last.pre_count
        /\ trackers[last.cam].frame_id = last.pre.frame_id + 1
        /\ \A u \in Held(last.pre) :
              LET old == last.pre.heap[u]
              IN /\ old.state = Tracked => Post[u].state = Lost
                 /\ old.state = Lost =>
                       /\ Post[u].state \in {Lost, Removed}
                       /\ Post[u].state = Removed =>
                             FrameOfLast - old.frame_id > last.pre.max_time_lost

C23_Witness ==
    /\ UpdateDone /\ last.dets = <<>> /\ last.returned
    /\ \E u \in Held(last.pre) : last.pre.heap[u].state = Tracked
    /\ \E u \in Held(last.pre) :
          last.pre.heap[u].state = Lost /\ Post[u].state = Removed

\* C24: a detection with a degenerate bbox is dropped before matching: it is
\* in neither matching list, is matched to no track and spawns no track, and
\* the call does not raise.
C24_DegenerateDropped ==
    UpdateDone =>
        \A d \in Range(last.dets) :
            Degenerate(d.bbox) =>
                /\ d \notin Range(last.trace.high)
                /\ d \notin Range(last.trace.second)
                /\ ~MatchedIn(d)
                /\ ~SpawnedFrom(d)
                /\ (\A e \in Range(last.dets) : Degenerate(e.bbox)) => ~last.raised

\* centre of the Kalman-smoothed box of a track
SmoothCenter(t) ==
    <<RDiv(tlbr(t)[1] + tlbr(t)[3], 2), RDiv(tlbr(t)[2] + tlbr(t)[4], 2)>>

\* C25: the bbox of a TrackedObject is the track's Kalman-smoothed box
\* (Track.tlbr), and the centre tested against the zones is the centre of
\* that box, not of the raw bbox of the last matched detection.
C25_ReportsSmoothedBox ==
    (UpdateDone /\ last.returned) =>
        \A i \in 1..Len(last.objects) :
            LET o == last.objects[i]
                t == Post[o.uid]
            IN /\ o.bbox = tlbr(t)
               /\ o.center_x = SmoothCenter(t)[1]
               /\ o.center_y = SmoothCenter(t)[2]
               /\ o.zone_id = FirstZone(get_zones_by_camera(last.cam),
                                        SmoothCenter(t)[1], SmoothCenter(t)[2])

\* IoU of the predicted box of pool entry i with detection d, as stage 1 sees it
PoolIoU(i, d) == bbox_iou(tlbr(last.trace.predicted[i]), d.bbox)

\* index in the pool of Track object u
PoolIndex(u) == CHOOSE i \in 1..Len(last.trace.pool) : last.trace.pool[i] = u

\* the stage-1 matches are what the greedy fallback takes: pairs of IoU >=
\* match_thresh, no track and no detection twice, and every candidate pair
\* left out shares its track or its detection with a taken pair of at least
\* its IoU
GreedyStageOne ==
    LET M == last.trace.m1
        iou(p) == PoolIoU(PoolIndex(p[1]), p[2])
    IN /\ \A p \in M : iou(p) >= last.pre.match_thresh
       /\ \A p \in M : \A q \in M : p # q => (p[1] # q[1] /\ p[2] # q[2])
       /\ \A i \in 1..Len(last.trace.pool) : \A d \in Range(last.trace.high) :
             (PoolIoU(i, d) >= last.pre.match_thresh
                     /\ <<last.trace.pool[i], d>> \notin M)
                => \E q \in M : /\ (q[1] = last.trace.pool[i] \/ q[2] = d)
                                /\ iou(q) >= PoolIoU(i, d)

\* C26: without an exact assignment solver the matching is the greedy
\* fallback and update() does not raise, whatever the tracks and detections.
C26_GreedyFallback ==
    (UpdateDone /\ cfg.solver = "greedy") =>
        /\ ~last.raised
        /\ GreedyStageOne

\* stage 1 has tracks and detections but no pair at the IoU threshold
NoPairReaches ==
    /\ last.trace.pool # <<>>
    /\ last.trace.high # <<>>
    /\ \A i \in 1..Len(last.trace.pool) : \A d \in Range(last.trace.high) :
          PoolIoU(i, d) < last.pre.match_thresh

\* C27: _matching never raises; with tracks and detections but no pair at
\* the IoU threshold nothing is matched, every detection stays unmatched
\* (each high-confidence one starts a track) and update() returns.
C27_MatchingNeverRaises ==
    UpdateDone =>
        /\ ~last.raised
        /\ NoPairReaches =>
              /\ last.returned
              /\ last.trace.m1 = {}
              /\ \A d \in Range(last.trace.high) : SpawnedFrom(d)

\* Track object u was created by the latest update
SpawnedTrack(u) == \E p \in last.trace.spawned : p[1] = u

\* C28: every track update() returns in frame f is Tracked and was matched
\* or created in frame f; a Lost or Removed track is never returned, and no
\* tracking callback is invoked for one.
C28_ReturnsOnlyTracked ==
    (UpdateDone /\ last.returned) =>
        /\ \A u \in Range(last.tracks) :
              /\ Post[u].state = Tracked
              /\ Post[u].frame_id = FrameOfLast
              /\ MatchedTrack(u) \/ SpawnedTrack(u)
        /\ \A k \in 1..Len(last.calls) :
              last.calls[k].kind = "tracking" => Post[last.calls[k].uid].state = Tracked

\* C29: after every update() every track in tracked_tracks is Tracked, every
\* track in lost_tracks is Lost, every track in removed_tracks is Removed,
\* and every Lost track is in lost_tracks.
C29_PoolsAgreeWithStates ==
    (UpdateDone /\ last.returned) =>
        LET trk == trackers[last.cam]
        IN /\ \A u \in Range(trk.tracked_tracks) : Post[u].state = Tracked
           /\ \A u \in Range(trk.lost_tracks) : Post[u].state = Lost
           /\ \A u \in Range(trk.removed_tracks) : Post[u].state = Removed
           /\ \A u \in DOMAIN Post : Post[u].state = Lost => u \in Range(trk.lost_tracks)

\* track t of tracker trk was last updated more than max_time_lost frames ago
Overdue(trk, t) == trk.frame_id - t.frame_id > trk.max_time_lost

\* C30: at the end of every update() no Lost track is overdue: a Lost track
\* is Removed and out of lost_tracks by the end of the first update in which
\* frame_id - track.frame_id exceeds max_time_lost, and a Lost track is
\* Removed no earlier than that.
C30_LostExpire ==
    UpdateDone =>
        LET trk == trackers[last.cam]
        IN /\ \A u \in DOMAIN Post :
                 Post[u].state = Lost => ~Overdue(trk, Post[u])
           /\ \A u \in DOMAIN last.pre.heap :
                 (last.pre.heap[u].state = Lost /\ Post[u].state = Removed) =>
                     /\ Overdue(trk, last.pre.heap[u])
                     /\ u \notin Range(trk.lost_tracks)

\* C31: every high-confidence detection left unmatched spawns exactly one
\* track, whose track_id no track the tracker held carries, which is in
\* tracked_tracks at the end of the update and among the returned tracks,
\* whatever other trackers were constructed or reset meanwhile.
C31_SpawnedTrackIsKept ==
    (UpdateDone /\ last.returned) =>
        \A d \in Range(last.trace.high) :
            ~MatchedIn(d) =>
                /\ Cardinality({p \in last.trace.spawned : p[2] = d}) = 1
                /\ \A p \in last.trace.spawned :
                      p[2] = d =>
                         /\ \A u \in Held(last.pre) :
                               last.pre.heap[u].track_id # Post[p[1]].track_id
                         /\ p[1] \in Range(trackers[last.cam].tracked_tracks)
                         /\ p[1] \in Range(last.tracks)

\* the activated Track objects in tracked_tracks or lost_tracks of trk
Live(trk) ==
    {u \in Range(trk.tracked_tracks) \cup Range(trk.lost_tracks) :
        trk.heap[u].is_activated}

\* the motion state one prediction step gives track t
PredictedOnce(t) ==
    KalmanPredict(IF t.state # Tracked THEN [t.mean EXCEPT ![8] = 0] ELSE t.mean,
                  t.cov)

\* C32: in each update() every activated track that was in tracked_tracks
\* or lost_tracks is predicted exactly once before stage-1 matching (none
\* skipped, none twice), and a track created in the call is not predicted.
C32_PredictOncePerFrame ==
    UpdateDone =>
        /\ \A u \in Live(last.pre) :
              Cardinality({i \in 1..Len(last.trace.pool) : last.trace.pool[i] = u}) = 1
        /\ Range(last.trace.pool) \subseteq Live(last.pre)
        /\ \A i \in 1..Len(last.trace.pool) :
              LET old == last.pre.heap[last.trace.pool[i]]
              IN /\ last.trace.predicted[i].mean = PredictedOnce(old).mean
                 /\ last.trace.predicted[i].cov = PredictedOnce(old).cov
        /\ \A p \in last.trace.m1 :
              PoolIoU(PoolIndex(p[1]), p[2]) >= last.pre.match_thresh
        /\ \A p \in last.trace.spawned :
              LET k == KalmanInitiate(xyxy_to_xyah(p[2].bbox))
              IN Post[p[1]].mean = k.mean /\ Post[p[1]].cov = k.cov

C32_Witness ==
    /\ UpdateDone /\ last.returned
    /\ \E u \in Range(last.pre.tracked_tracks) \cap Range(last.pre.lost_tracks) :
          last.pre.heap[u].state = Lost
    /\ \E u \in Live(last.pre) :
          last.pre.heap[u].state = Tracked /\ last.pre.heap[u].mean[5] # 0
    /\ last.trace.spawned # {}

StageOneBoxes == [i \in 1..Len(last.trace.pool) |-> tlbr(last.trace.predicted[i])]

StageOneResult ==
    matching(StageOneBoxes, DetBoxes(last.trace.high), last.pre.match_thresh,
             cfg.solver)

\* the same for stage 2: the pool tracks stage 1 left unmatched that are
\* Tracked, against the low-confidence detections
StageTwoBoxes ==
    LET keep == SelectSeq([i \in 1..Len(last.trace.pool) |-> i],
                  LAMBDA i : /\ \A p \in last.trace.m1 : p[1] # last.trace.pool[i]
                             /\ last.trace.predicted[i].state = Tracked)
    IN [k \in 1..Len(keep) |-> StageOneBoxes[keep[k]]]

StageTwoResult ==
    matching(StageTwoBoxes, DetBoxes(last.trace.second), SecondMatchThresh,
             cfg.solver)

\* r is a valid partial assignment of the boxes at the threshold
ValidAssignment(r, tboxes, dboxes, thresh) ==
    /\ r.matches \subseteq (1..Len(tboxes)) \X (1..Len(dboxes))
    /\ \A p \in r.matches : \A q \in r.matches :
          p # q => (p[1] # q[1] /\ p[2] # q[2])
    /\ \A p \in r.matches :
          bbox_iou(tboxes[p[1]], dboxes[p[2]]) >= thresh
    /\ Range(r.u_track) = {i \in 1..Len(tboxes) : \A p \in r.matches : p[1] # i}
    /\ Range(r.u_det) = {j \in 1..Len(dboxes) : \A p \in r.matches : p[2] # j}
    /\ Len(r.u_track) = Cardinality(Range(r.u_track))
    /\ Len(r.u_det) = Cardinality(Range(r.u_det))

\* C34: every result of _matching is a valid partial assignment: no track
\* or detection index in two pairs, every pair at IoU >= the stage
\* threshold, and the unmatched lists exactly the indices in no pair.
C34_MatchingIsAssignment ==
    UpdateDone =>
        /\ MatchedPairs(last.trace.pool, last.trace.high, StageOneResult.matches)
              = last.trace.m1
        /\ ~StageOneResult.raised =>
              ValidAssignment(StageOneResult, StageOneBoxes,
                              DetBoxes(last.trace.high), last.pre.match_thresh)
        /\ (~StageOneResult.raised /\ ~StageTwoResult.raised) =>
              ValidAssignment(StageTwoResult, StageTwoBoxes,
                              DetBoxes(last.trace.second), SecondMatchThresh)

C34_Witness ==
    /\ UpdateDone /\ last.returned
    /\ StageOneResult.matches # {}
    /\ StageOneResult.u_track # <<>>
    /\ StageOneResult.u_det # <<>>
    /\ \E i \in 1..Len(StageOneBoxes) : \E j \in 1..Len(last.trace.high) :
          /\ bbox_iou(StageOneBoxes[i], last.trace.high[j].bbox) > 0
          /\ bbox_iou(StageOneBoxes[i], last.trace.high[j].bbox) < last.pre.match_thresh

\* the ids the camera threads have obtained from Track.next_id()
IdsGot == alloc[1].got \o alloc[2].got

\* C35: next_id() is atomic across the camera threads: no two activations
\* obtain the same track_id and no increment is lost.
C35_NextIdAtomic ==
    /\ Cardinality(Range(IdsGot)) = Len(IdsGot)
    /\ (\A t \in Threads : alloc[t].at = "idle") => track_count = Len(IdsGot)

\* the latest update is the first to report Track object o.uid
FirstReport(o) == seen[last.cam][o.uid].first = clock

\* no other Track object of the camera's present tracker carries o's track_id
OnlyBearer(o) ==
    \A v \in DOMAIN trackers[last.cam].heap :
        trackers[last.cam].heap[v].track_id = o.track_id => v = o.uid

\* C36: no zone history survives remove_camera: a track of the camera's
\* present tracker, at its first report, emits no transition when it is in
\* no zone, and otherwise one with from_zone_id = null and
\* duration_in_prev_zone = null.
C36_RemovalForgetsZones ==
    (UpdateDone /\ last.returned) =>
        \A i \in 1..Len(last.objects) :
            LET o == last.objects[i]
                em == {k \in 1..Len(last.transitions) : last.transitions[k].uid = o.uid}
            IN (FirstReport(o) /\ OnlyBearer(o)) =>
                  IF o.zone_id = None THEN em = {}
                  ELSE \A k \in em :
                          /\ last.transitions[k].from_zone_id = None
                          /\ last.transitions[k].duration_in_prev_zone = None

\* the stage-1 pairs of the latest update whose track was Lost: line 313,
\* track.re_activate(det, self.frame_id, new_id=False)
Reactivated == {p \in last.trace.m1 : last.pre.heap[p[1]].state = Lost}

\* C37: in the frame in which a Lost track is re-activated, the bbox, the
\* centroid and the zone reported for it are those of the re-activating
\* detection (or of the state smoothed with it), not those of the bbox the
\* track had before it was lost.
C37_ReactivatedReportsDetection ==
    (UpdateDone /\ last.returned) =>
        \A p \in Reactivated : \A i \in 1..Len(last.objects) :
            LET o == last.objects[i]
                boxes == {p[2].bbox, tlbr(Post[p[1]])}
            IN o.uid = p[1] =>
                  \E b \in boxes :
                      /\ o.bbox = b
                      /\ o.center_x = RDiv(b[1] + b[3], 2)
                      /\ o.center_y = RDiv(b[2] + b[4], 2)
                      /\ o.zone_id = FirstZone(get_zones_by_camera(last.cam),
                                               o.center_x, o.center_y)

\* C39: predict() on a track that is not Tracked zeroes the height velocity
\* first, so the predicted height is the height before prediction; on a
\* Tracked track the height velocity is untouched and the predicted height
\* is height + height velocity.
C39_LostHeightFrozen ==
    UpdateDone =>
        \A i \in 1..Len(last.trace.pool) :
            LET old == last.pre.heap[last.trace.pool[i]]
                new == last.trace.predicted[i]
            IN IF old.state = Tracked
               THEN /\ new.mean[8] = old.mean[8]
                    /\ new.mean[4] = old.mean[4] + old.mean[8]
               ELSE /\ new.mean[8] = 0
                    /\ new.mean[4] = old.mean[4]

C39_Witness ==
    /\ UpdateDone
    /\ \E i \in 1..Len(last.trace.pool) :
          /\ last.pre.heap[last.trace.pool[i]].state = Lost
          /\ last.pre.heap[last.trace.pool[i]].mean[8] # 0
          /\ last.trace.predicted[i].mean[8] = 0

====
